---- MODULE Spec2Model ----
(***************************************************************************)
(* A model of ggpo-rs: the UDP transport (src/network/udp.rs) and the      *)
(* Session trait's default methods (src/ggpo.rs).                          *)
(*                                                                         *)
(* Transport state: the Udp value's two Option fields, the operating       *)
(* system's view of the ports (which are taken by other processes), the    *)
(* and the bound socket's receive queue.                                   *)
(* `ret` records what the last completed call did and returned; `pollPc`   *)
(* is the position of a pending on_loop_poll future (its only suspension   *)
(* point is the await of recv_from).  init and send_to take &mut self, so  *)
(* neither can be called while a poll future borrows the Udp: they wait    *)
(* for pollPc = "idle".  The binds and the send complete at once.          *)
(***************************************************************************)
EXTENDS Integers, Sequences, FiniteSets, TLC

VARIABLES socket, callbacks, otherBusy, rxQueue, pollPc, everInit, ret,
          sctx, sret

udpVars == <<socket, callbacks, otherBusy, rxQueue, pollPc, everInit, ret>>
vars == <<socket, callbacks, otherBusy, rxQueue, pollPc, everInit, ret,
          sctx, sret>>

\* Option<T>: None is the empty sequence, Some(x) the sequence of x alone
None == << >>
Some(x) == <<x>>
Unwrap(o) == o[1]

(***************************************************************************)
(* Bounds of the model.                                                    *)
(***************************************************************************)
\* datagrams the bound socket's receive queue holds at most
MaxQueue == 1
\* the highest frame number the session context reaches
MaxFrame == 4

(***************************************************************************)
(* Program constants.                                                      *)
(***************************************************************************)
\* `port as u16`: a port number is kept modulo 2^16
U16Mod == 65536
\* the retries argument init passes to create_socket
InitRetries == 3

(***************************************************************************)
(* UdpMsg and its bincode encoding.  The udp_msg module is not among the   *)
(* sources; the message variants are the ones the wire format names.       *)
(* bincode writes an enum as a u32 little-endian variant index followed by *)
(* the fields in order, integers fixed-width little-endian, a byte vector  *)
(* as a u64 length followed by the bytes.                                  *)
(***************************************************************************)
NullFrame == -1

Pow256(k) == IF k = 0 THEN 1 ELSE IF k = 1 THEN 256 ELSE IF k = 2 THEN 65536
             ELSE 16777216

\* n as k little-endian bytes, two's complement for a negative n (\div rounds
\* down); bytes past the fourth extend the sign
LE(n, k) == [i \in 1..k |-> IF i <= 4 THEN (n \div Pow256(i - 1)) % 256
                             ELSE IF n < 0 THEN 255 ELSE 0]

\* the i32 that 4 little-endian bytes hold
FromLE(b) == b[1] + b[2] * 256 + b[3] * 65536
             + (IF b[4] >= 128 THEN b[4] - 256 ELSE b[4]) * 16777216

\* a u64 length, of which this model reads the low 4 bytes: the high 4 are 0
\* and the value is not negative for every length a datagram here can hold
LenOk(b) == (\A i \in 5..8 : b[i] = 0) /\ FromLE(SubSeq(b, 1, 4)) >= 0

SyncRequest(nonce) == [type |-> "SyncRequest", nonce |-> nonce]
InputMsg(frame, bits) == [type |-> "Input", frame |-> frame, bits |-> bits]
KeepAlive(sequence) == [type |-> "KeepAlive", sequence |-> sequence]

\* the messages of the model: boundary values (the greatest i32, the null
\* frame, an input of no bytes) and an ordinary input
Msgs == { SyncRequest(2147483647), InputMsg(NullFrame, << >>), InputMsg(258, <<7>>),
          KeepAlive(0) }

serialize(m) ==
    CASE m.type = "SyncRequest" -> LE(0, 4) \o LE(m.nonce, 4)
      [] m.type = "Input" -> LE(2, 4) \o LE(m.frame, 4)
                             \o LE(Len(m.bits), 8) \o m.bits
      [] m.type = "KeepAlive" -> LE(5, 4) \o LE(m.sequence, 4)

DecodeErr == None

deserialize(b) ==
    IF Len(b) < 4 THEN DecodeErr
    ELSE LET tag == FromLE(SubSeq(b, 1, 4))
             rest == SubSeq(b, 5, Len(b))
         IN  CASE tag = 0 ->
                    IF Len(rest) < 4 THEN DecodeErr
                    ELSE Some(SyncRequest(FromLE(SubSeq(rest, 1, 4))))
               [] tag = 2 ->
                    IF Len(rest) < 12 THEN DecodeErr
                    ELSE LET n == FromLE(SubSeq(rest, 5, 8))
                         IN  IF ~LenOk(SubSeq(rest, 5, 12)) \/ Len(rest) < 12 + n
                             THEN DecodeErr
                             ELSE Some(InputMsg(FromLE(SubSeq(rest, 1, 4)),
                                                SubSeq(rest, 13, 12 + n)))
               [] tag = 5 ->
                    IF Len(rest) < 4 THEN DecodeErr
                    ELSE Some(KeepAlive(FromLE(SubSeq(rest, 1, 4))))
               [] OTHER -> DecodeErr

(***************************************************************************)
(* The environment of the transport.                                       *)
(***************************************************************************)
Peers == {"peerA", "peerB"}

\* ports init is asked for: an ordinary one, and one whose retries pass 65535
TestPorts == {7000, 65534}

\* ports the operating system hands out for a bind to port 0
EphemeralPorts == {49152, 49153}

\* the ports other processes hold, fixed for a run
BusyChoices == { {}, {7000}, {7000, 7001, 7002, 7003}, {65534}, {65534, 65535} }

\* byte strings no UdpMsg encodes to: empty, an unknown variant index, a
\* truncated Input
Garbage == { << >>, LE(9, 4), SubSeq(serialize(InputMsg(258, <<7>>)), 1, 6) }

\* what the network can deliver: every message and every garbage string from
\* one peer, one message from the other
Datagrams == { [from |-> "peerA", bytes |-> b] :
                 b \in {serialize(m) : m \in Msgs} \cup Garbage }
              \cup { [from |-> "peerB", bytes |-> serialize(KeepAlive(0))] }

Destinations == { << >>, <<"peerA">>, <<"peerB", "peerA">> }

Range(q) == {q[i] : i \in DOMAIN q}

CallbackIds == {"cb1", "cb2"}

\* the ports a bind cannot get: other processes' and this Udp's own socket's
Unavailable == otherBusy \cup {soc.port : soc \in Range(socket)}

(***************************************************************************)
(* create_socket                                                           *)
(***************************************************************************)
\* UdpSocket::bind to a u16 port: port 0 asks the system for a free port e
bind(port16, unavailable, e) ==
    IF port16 = 0 THEN Some(e)
    ELSE IF port16 \in unavailable THEN None ELSE Some(port16)

RECURSIVE bind_loop(_, _, _, _, _)
\* the for loop over port in p .. p + retries (usize), each bound `as u16`
bind_loop(port, last, unavailable, e, attempts) ==
    IF port > last THEN [soc |-> None, attempts |-> attempts]
    ELSE LET p16 == port % U16Mod
             b == bind(p16, unavailable, e)
         IN  IF b # None
             THEN [soc |-> Some([port |-> Unwrap(b), peer |-> None]),
                   attempts |-> Append(attempts, p16)]
             ELSE bind_loop(port + 1, last, unavailable, e, Append(attempts, p16))

create_socket(port, retries, unavailable, e) ==
    bind_loop(port, port + retries, unavailable, e, << >>)

(***************************************************************************)
(* The record of the last completed call.                                  *)
(***************************************************************************)
Ret(op, result) ==
    [op |-> op, result |-> result, port |-> 0, attempts |-> << >>,
     transmitted |-> None, dgram |-> None, invoked |-> << >>]

(***************************************************************************)
(* Udp::new / Udp::default                                                 *)
(***************************************************************************)
UdpNew == [socket |-> None, callbacks |-> None]

(***************************************************************************)
(* Udp::init                                                               *)
(***************************************************************************)
\* init, had it not stored the callbacks
init_without_callbacks(port, cb, e) ==
    /\ pollPc = "idle"
    /\ LET r == create_socket(port, InitRetries, Unavailable, e)
           ok == r.soc # None
       IN  /\ callbacks' = callbacks
           /\ socket' = IF ok THEN r.soc ELSE socket
           /\ rxQueue' = IF ok THEN << >> ELSE rxQueue
           /\ everInit' = (everInit \/ ok)
           /\ ret' = [Ret("init", IF ok THEN "Ok" ELSE "Io")
                        EXCEPT !.port = port, !.attempts = r.attempts]
    /\ UNCHANGED <<otherBusy, pollPc, sctx, sret>>

init(port, cb, e) ==
    /\ pollPc = "idle"
    /\ LET r == create_socket(port, InitRetries, Unavailable, e)
           ok == r.soc # None
       IN  /\ callbacks' = Some(cb)
           \* `?` returns before the assignment when create_socket fails
           /\ socket' = IF ok THEN r.soc ELSE socket
           \* a replaced socket is dropped with what it had queued
           /\ rxQueue' = IF ok THEN << >> ELSE rxQueue
           /\ everInit' = (everInit \/ ok)
           /\ ret' = [Ret("init", IF ok THEN "Ok" ELSE "Io")
                        EXCEPT !.port = port, !.attempts = r.attempts]
    /\ UNCHANGED <<otherBusy, pollPc, sctx, sret>>

(***************************************************************************)
(* Udp::send_to                                                            *)
(***************************************************************************)
\* UdpSocket::peer_addr: an error on a socket that was never connected
peer_addr(soc) == IF Unwrap(soc).peer = None THEN "Io" ELSE "Ok"

send_to(msg, destination, ioOk) ==
    /\ pollPc = "idle"
    /\ LET serialized == serialize(msg)
       IN  IF socket = None
           THEN ret' = Ret("send_to", "SocketUninit")
           \* UdpSocket::send_to fails: no address to send to, or the system refuses
           ELSE IF destination = << >> \/ ~ioOk
           THEN ret' = Ret("send_to", "Io")
           \* the datagram is on the network; then peer_addr()? and Ok(())
           ELSE ret' = [Ret("send_to", peer_addr(socket))
                          EXCEPT !.transmitted =
                                   Some([bytes |-> serialized, to |-> destination[1]])]
    /\ UNCHANGED <<socket, callbacks, otherBusy, rxQueue, pollPc, everInit, sctx, sret>>

(***************************************************************************)
(* Udp::on_loop_poll                                                       *)
(***************************************************************************)
\* BytesMut::new(): an empty buffer, whose as_mut() is a slice of length 0
RecvBufNew == << >>

\* recv_from copies as much of the datagram as the slice holds and returns
\* the number of bytes copied; the rest of the datagram is discarded
recv_from(buf, bytes) ==
    LET n == IF Len(buf) < Len(bytes) THEN Len(buf) ELSE Len(bytes)
    IN  [len |-> n, buf |-> SubSeq(bytes, 1, n) \o SubSeq(buf, n + 1, Len(buf))]

\* entry, up to the await of recv_from
on_loop_poll_begin ==
    /\ pollPc = "idle"
    /\ IF socket = None
       THEN /\ ret' = Ret("on_loop_poll", "SocketUninit")
            /\ pollPc' = pollPc
       ELSE /\ pollPc' = "recv_from"
            /\ ret' = ret
    /\ UNCHANGED <<socket, callbacks, otherBusy, rxQueue, everInit, sctx, sret>>

\* the await completes with a datagram; the rest of the function
on_loop_poll_recv ==
    /\ pollPc = "recv_from"
    /\ rxQueue # << >>
    /\ LET d == Head(rxQueue)
           r == recv_from(RecvBufNew, d.bytes)
           m == deserialize(r.buf)
           res == IF m = None THEN "Bincode"
                  ELSE IF callbacks = None THEN "CallbacksUninit" ELSE "OkTrue"
           calls == IF res = "OkTrue"
                    THEN << [cb |-> Unwrap(callbacks), from |-> d.from,
                             msg |-> Unwrap(m), len |-> r.len] >>
                    ELSE << >>
       IN  ret' = [Ret("on_loop_poll", res) EXCEPT !.dgram = Some(d), !.invoked = calls]
    /\ rxQueue' = Tail(rxQueue)
    /\ pollPc' = "idle"
    /\ UNCHANGED <<socket, callbacks, otherBusy, everInit, sctx, sret>>

(***************************************************************************)
(* The network delivers a datagram to the bound socket.                    *)
(***************************************************************************)
Deliver(d) ==
    /\ socket # None
    /\ Len(rxQueue) < MaxQueue
    /\ rxQueue' = Append(rxQueue, d)
    /\ UNCHANGED <<socket, callbacks, otherBusy, pollPc, everInit, ret, sctx, sret>>

(***************************************************************************)
(* The Session trait's default methods (src/ggpo.rs).  They take no        *)
(* receiver and read no state: each is its return value.                   *)
(***************************************************************************)
do_poll(timeout) == "Ok"

\* the session's configuration, as the design describes it
NumPlayers == 2
PredictionWindow == 2
ValidHandles == 1..NumPlayers

\* add_player, had it checked its handle
add_player_validating(player, handle) ==
    IF handle \in ValidHandles THEN "Ok" ELSE "InvalidPlayerHandle"

add_player(player, handle) == "Ok"

add_local_input(player, values, size) == "Ok"

synchronize_input(values, size, disconnect_flags) == "Ok"

increment_frame == "Ok"

chat(text) == "Ok"

disconnect_player(handle) == "Ok"

get_network_stats(stats, handle) == "Ok"

logv(fmt) == "Ok"

set_frame_delay(player, delay) == "Unsupported"

set_disconnect_timeout(timeout) == "Unsupported"

set_disconnect_notify_start(timeout) == "Unsupported"

(***************************************************************************)
(* The session a game runs, as the design describes it: the local frame,   *)
(* each remote player's confirmed-frame watermark, and the remote          *)
(* endpoints still in the Syncing phase.  None of it is state of the       *)
(* trait; it is the situation in which the game calls the methods.         *)
(***************************************************************************)
Remotes == {"r1", "r2"}

\* argument values, valid and not
HandleArgs == 0..(NumPlayers + 1)
SizeArgs == {0, 4}
TimeoutArgs == {0, 100}
TextArgs == {"", "gg"}
PlayerKinds == {"Local", "Remote", "Spectator"}

Min(S) == CHOOSE x \in S : \A y \in S : x <= y

MinConfirmed == Min({sctx.confirmed[r] : r \in Remotes})

FrameAdvance ==
    /\ sctx.localFrame < MaxFrame
    /\ sctx' = [sctx EXCEPT !.localFrame = @ + 1]
    /\ UNCHANGED <<sret, socket, callbacks, otherBusy, rxQueue, pollPc, everInit, ret>>

Synchronized(r) ==
    /\ r \in sctx.syncing
    /\ sctx' = [sctx EXCEPT !.syncing = @ \ {r}]
    /\ UNCHANGED <<sret, socket, callbacks, otherBusy, rxQueue, pollPc, everInit, ret>>

Confirm(r) ==
    /\ r \notin sctx.syncing
    /\ sctx.confirmed[r] < MaxFrame
    /\ sctx' = [sctx EXCEPT !.confirmed[r] = @ + 1]
    /\ UNCHANGED <<sret, socket, callbacks, otherBusy, rxQueue, pollPc, everInit, ret>>

\* the record of the last Session call: the method, its handle argument, the
\* situation it was made in (where a method's contract depends on it) and
\* what it returned
SRet(op, handle, result) ==
    [op |-> op, handle |-> handle, ahead |-> None, syncing |-> None, result |-> result]

CallDoPoll ==
    \E t \in TimeoutArgs :
        /\ sret' = SRet("do_poll", None, do_poll(t))
        /\ UNCHANGED <<sctx, udpVars>>

CallAddPlayer ==
    \E p \in PlayerKinds, h \in HandleArgs :
        /\ sret' = SRet("add_player", Some(h), add_player(p, h))
        /\ UNCHANGED <<sctx, udpVars>>

CallAddLocalInput ==
    \E h \in HandleArgs, v \in TextArgs, s \in SizeArgs :
        /\ sret' = [SRet("add_local_input", Some(h), add_local_input(h, v, s))
                   EXCEPT !.ahead = Some(sctx.localFrame - MinConfirmed)]
        /\ UNCHANGED <<sctx, udpVars>>

CallSynchronizeInput ==
    \E v \in TextArgs, s \in SizeArgs, f \in {0, 1} :
        /\ sret' = [SRet("synchronize_input", None, synchronize_input(v, s, f))
                   EXCEPT !.syncing = Some(sctx.syncing)]
        /\ UNCHANGED <<sctx, udpVars>>

CallIncrementFrame ==
        /\ sret' = SRet("increment_frame", None, increment_frame)
        /\ UNCHANGED <<sctx, udpVars>>

CallChat ==
    \E t \in TextArgs :
        /\ sret' = SRet("chat", None, chat(t))
        /\ UNCHANGED <<sctx, udpVars>>

CallDisconnectPlayer ==
    \E h \in HandleArgs :
        /\ sret' = SRet("disconnect_player", Some(h), disconnect_player(h))
        /\ UNCHANGED <<sctx, udpVars>>

CallGetNetworkStats ==
    \E h \in HandleArgs :
        /\ sret' = SRet("get_network_stats", Some(h), get_network_stats("stats", h))
        /\ UNCHANGED <<sctx, udpVars>>

CallLogv ==
    \E t \in TextArgs :
        /\ sret' = SRet("logv", None, logv(t))
        /\ UNCHANGED <<sctx, udpVars>>

CallSetFrameDelay ==
    \E h \in HandleArgs, d \in {0, 2} :
        /\ sret' = SRet("set_frame_delay", Some(h), set_frame_delay(h, d))
        /\ UNCHANGED <<sctx, udpVars>>

CallSetDisconnectTimeout ==
    \E t \in TimeoutArgs :
        /\ sret' = SRet("set_disconnect_timeout", None, set_disconnect_timeout(t))
        /\ UNCHANGED <<sctx, udpVars>>

CallSetDisconnectNotifyStart ==
    \E t \in TimeoutArgs :
        /\ sret' = SRet("set_disconnect_notify_start", None, set_disconnect_notify_start(t))
        /\ UNCHANGED <<sctx, udpVars>>

(***************************************************************************)
(* Specifications.                                                         *)
(***************************************************************************)
Init ==
    /\ socket = UdpNew.socket
    /\ callbacks = UdpNew.callbacks
    /\ otherBusy \in BusyChoices
    /\ rxQueue = << >>
    /\ pollPc = "idle"
    /\ everInit = FALSE
    /\ ret = Ret("none", "none")
    /\ sctx = [localFrame |-> 0, confirmed |-> [r \in Remotes |-> NullFrame],
               syncing |-> Remotes]
    /\ sret = SRet("none", None, "none")

CallInit ==
    \E port \in TestPorts, cb \in CallbackIds, e \in EphemeralPorts \ Unavailable :
        init(port, cb, e)

CallSendTo ==
    \E msg \in Msgs, destination \in Destinations, ioOk \in BOOLEAN :
        send_to(msg, destination, ioOk)

Network == \E d \in Datagrams : Deliver(d)

NextUdp ==
    \/ CallInit
    \/ CallSendTo
    \/ on_loop_poll_begin
    \/ on_loop_poll_recv
    \/ Network

NextSession ==
    \/ FrameAdvance
    \/ \E r \in Remotes : Synchronized(r)
    \/ \E r \in Remotes : Confirm(r)
    \/ CallDoPoll
    \/ CallAddPlayer
    \/ CallAddLocalInput
    \/ CallSynchronizeInput
    \/ CallIncrementFrame
    \/ CallChat
    \/ CallDisconnectPlayer
    \/ CallGetNetworkStats
    \/ CallLogv
    \/ CallSetFrameDelay
    \/ CallSetDisconnectTimeout
    \/ CallSetDisconnectNotifyStart

\* the transport
Spec == Init /\ [][NextUdp]_vars

\* the transport, where a poll whose datagram has arrived does complete; the
\* network owes no datagram
FairSpec == Spec /\ WF_vars(on_loop_poll_recv)

\* the Session methods
SessionSpec == Init /\ [][NextSession]_vars

(***************************************************************************)
(* The claims.                                                             *)
(***************************************************************************)
ErrorResults == {"SocketUninit", "CallbacksUninit", "Io", "Bincode"}

\* C1: add_local_input fails with PredictionThreshold if and only if the local
\* frame is more than the prediction window ahead of the least confirmed frame
\* of the remote players; with a valid handle it succeeds otherwise.
C1_PredictionBound ==
    (sret.op = "add_local_input" /\ Unwrap(sret.handle) \in ValidHandles)
        => IF Unwrap(sret.ahead) > PredictionWindow
           THEN sret.result = "PredictionThreshold"
           ELSE sret.result = "Ok"

\* C2: synchronize_input fails with NotSynchronized whenever a remote endpoint
\* is still in the Syncing phase.
C2_NotSynchronized ==
    (sret.op = "synchronize_input" /\ Unwrap(sret.syncing) # {})
        => sret.result = "NotSynchronized"

\* C3: a method that takes a player handle returns InvalidPlayerHandle or
\* PlayerOutOfRange, never Ok, for a handle outside the session's handles.
C3_HandleChecked ==
    (/\ sret.op \in {"add_player", "add_local_input", "disconnect_player",
                      "get_network_stats"}
     /\ Unwrap(sret.handle) \notin ValidHandles)
        => sret.result \in {"InvalidPlayerHandle", "PlayerOutOfRange"}

\* C4: a datagram that is the serialisation of a message m is decoded by
\* on_loop_poll back to m, and on_msg is invoked exactly once, with m, the
\* sender's address and the datagram's length.
C4_RoundTrip ==
    \A m \in Msgs :
        (/\ ret.op = "on_loop_poll"
         /\ ret.dgram # None
         /\ Unwrap(ret.dgram).bytes = serialize(m))
            => /\ ret.result = "OkTrue"
               /\ Len(ret.invoked) = 1
               /\ ret.invoked[1].msg = m
               /\ ret.invoked[1].from = Unwrap(ret.dgram).from
               /\ ret.invoked[1].len = Len(Unwrap(ret.dgram).bytes)

\* C5: when on_loop_poll receives a datagram that cannot be decoded, it does
\* not invoke on_msg, returns no error, and leaves socket and callbacks as
\* they were.
C5_UndecodableDropped ==
    [][ (/\ pollPc = "recv_from"
         /\ pollPc' = "idle"
         /\ deserialize(Head(rxQueue).bytes) = None)
            => /\ ret'.invoked = << >>
               /\ ret'.result \notin ErrorResults
               /\ socket' = socket
               /\ callbacks' = callbacks ]_vars

\* C6: a call of on_loop_poll on an initialised transport eventually returns,
\* also when no datagram is ever delivered.
C6_PollReturns == (pollPc = "recv_from") ~> (pollPc = "idle")

\* C7 as stated: every default method of Session returns Ok(()).
C7_AllDefaultsOk == sret.op # "none" => sret.result = "Ok"

OkMethods == {"do_poll", "add_player", "add_local_input", "synchronize_input",
              "increment_frame", "chat", "disconnect_player", "get_network_stats",
              "logv"}

UnsupportedMethods == {"set_frame_delay", "set_disconnect_timeout",
                       "set_disconnect_notify_start"}

\* C7, amended: do_poll, add_player, add_local_input, synchronize_input,
\* increment_frame, chat, disconnect_player, get_network_stats and logv return
\* Ok(()) for every argument; set_frame_delay, set_disconnect_timeout and
\* set_disconnect_notify_start return Err(Unsupported) for every argument.
C7_DefaultResults ==
    /\ sret.op \in OkMethods \cup UnsupportedMethods \cup {"none"}
    /\ sret.op \in OkMethods => sret.result = "Ok"
    /\ sret.op \in UnsupportedMethods => sret.result = "Unsupported"

\* set_frame_delay has returned Unsupported for a handle the session does not
\* have
C7_Witness ==
    /\ sret.op = "set_frame_delay"
    /\ Unwrap(sret.handle) \notin ValidHandles
    /\ sret.result = "Unsupported"

\* C8: send_to returns Ok(()) if and only if it handed the datagram to the
\* socket for transmission.
C8_OkIffTransmitted ==
    ret.op = "send_to" => (ret.result = "Ok" <=> ret.transmitted # None)

\* C9: init's create_socket tries the ports p, p+1, ..., in ascending order,
\* none outside p .. p+retries, stops at the first that binds, and fails only
\* after retries+1 attempts.
C9_BindAttempts ==
    ret.op = "init" =>
        /\ Len(ret.attempts) \in 1..(InitRetries + 1)
        /\ \A i \in DOMAIN ret.attempts : ret.attempts[i] = ret.port + i - 1
        /\ ret.result = "Io" => Len(ret.attempts) = InitRetries + 1
        /\ ret.result \in {"Ok", "Io"}

\* C10: a present socket implies present callbacks; on_loop_poll never returns
\* CallbacksUninit; and while no init has succeeded, on_loop_poll returns
\* SocketUninit without invoking on_msg.
C10_SocketImpliesCallbacks ==
    /\ socket # None => callbacks # None
    /\ ret.result # "CallbacksUninit"
    /\ (ret.op = "on_loop_poll" /\ ~everInit)
           => (ret.result = "SocketUninit" /\ ret.invoked = << >>)

\* an init has failed on a Udp that an earlier init bound: the socket is still
\* there, with the callbacks of the failed call
C10_Witness ==
    /\ ret.op = "init"
    /\ ret.result = "Io"
    /\ socket # None
    /\ callbacks # None

====
